---- MODULE Spec2Model ----
(***************************************************************************)
(* Model of the LabRAD "Circuit Simulator" server                          *)
(* (Simulations/circuit_simulator.py).                                     *)
(*                                                                         *)
(* The server object `self` carries no attributes of its own; every        *)
(* setting receives the context dictionary `c` of the client context that  *)
(* issued the request and keeps the session there under the keys           *)
(* 'circuit', 'T', 'd0' and 'dd0'.  A Python dict is modelled as a TLA+    *)
(* function whose domain is the set of keys present, so that a missing     *)
(* key (KeyError) and a missing attribute (AttributeError) are cases of    *)
(* the model.  Physical quantities (floats) are modelled as integers.      *)
(***************************************************************************)
EXTENDS Integers, Sequences, FiniteSets, TLC

\* ------------------------------------------------------------------ bounds
MaxLen == 2      \* longest vector a client sends (d0, dd0, offsets, T lists)
MaxVal == 1      \* largest entry of a vector a client sends
MaxPhase == 2    \* largest stored phase the exploration follows
MaxTime == 1     \* largest time point a client sends in a list, or starts a grid from
MaxNodes == 2    \* largest node count / node index a client sends

Contexts == {"A", "B"}

VARIABLES
    server,   \* attributes of the CircuitSimulator instance (self)
    ctx,      \* ctx[k]: the context dictionary c of client context k
    last,     \* the last request served: setting, context, argument, outcome
    handed,   \* arguments of the Circuit.simulate call made by the last request
    stale,    \* stale[k]: T, d0, dd0 of k all predate k's latest New Circuit
    snap      \* snap[k][l]: the labels and inductors read when Add Mutual stored l

vars == <<server, ctx, last, handed, stale, snap>>

\* ------------------------------------------------------------ Python values
None == {}
Some(v) == {v}
The(o) == CHOOSE v \in o : TRUE

EmptyDict == [k \in {} |-> 0]
Has(d, k) == k \in DOMAIN d
SetItem(d, k, v) == [x \in (DOMAIN d) \cup {k} |-> IF x = k THEN v ELSE d[x]]
\* dict.get(k, default), with the value wrapped as an optional
Get(d, k) == IF Has(d, k) THEN Some(d[k]) ELSE None

Vecs(S, n) == UNION {[1..k -> S] : k \in 0..n}

\* What a setting yields: the server object, the context dictionary, the
\* exception raised ("" for none), the value returned and the call it made
\* into Circuit.simulate (None for no call).
Res(self, c, err, ret) == [self |-> self, c |-> c, err |-> err, ret |-> ret, call |-> None]
Raise(self, c, err) == Res(self, c, err, None)

\* ------------------------------------------------- circuitsim value objects
\* The ground node: what a two-terminal element's second node is when the
\* client omits node2.
GND == -1
NodeOr(node2) == IF node2 = None THEN GND ELSE The(node2)

Circuit(nodes) == [N |-> nodes, elems |-> EmptyDict]
Capacitor(C, node1, node2) == [kind |-> "Capacitor", C |-> C, i |-> node1, j |-> NodeOr(node2)]
Junction(I0, node1, node2) == [kind |-> "Junction", I0 |-> I0, i |-> node1, j |-> NodeOr(node2)]
Inductor(L, node1, node2, bias) ==
    [kind |-> "Inductor", L |-> L, i |-> node1, j |-> NodeOr(node2), bias |-> bias]
Resistor(R, node1, node2) == [kind |-> "Resistor", R |-> R, i |-> node1, j |-> NodeOr(node2)]
CurrentBias(I, node) == [kind |-> "CurrentBias", I |-> I, i |-> node]
Mutual(M, L1, L2, i, j, k, l) ==
    [kind |-> "Mutual", M |-> M, L1 |-> L1, L2 |-> L2, i |-> i, j |-> j, k |-> k, l |-> l]

\* getattr(element, name) succeeds
HasAttr(el, name) == name \in DOMAIN el

\* The node indices an element names
NodesOf(el) == {el[a] : a \in {"i", "j", "k", "l"} \cap DOMAIN el}
ValidNodes(circuit, el) == NodesOf(el) \subseteq ({GND} \cup 0..(circuit.N - 1))

\* Circuit.__getitem__ finds the label
CircuitHas(circuit, label) == label \in DOMAIN circuit.elems
\* Circuit.__setitem__: insert or replace under the label
CircuitSet(circuit, label, el) == [circuit EXCEPT !.elems = SetItem(@, label, el)]

\* Circuit.deriv(d) evaluates only a phase vector with one entry per node
DerivAccepts(circuit, d) == Len(d) = circuit.N

\* Circuit.simulate(T, d0, dd0): the exceptions it can end with ("" for a
\* completed run).  Vectors that do not match the node count are a
\* DimensionError; any other run may complete or report a failure of the
\* integration.
SimulateOutcomes(circuit, a) ==
    IF Len(a.d0) # circuit.N \/ (a.dd0 # None /\ Len(The(a.dd0)) # circuit.N)
    THEN {"DimensionError"}
    ELSE {"", "IntegrationError"}
\* The initial velocities the integrator starts from
InitialVelocities(circuit, a) ==
    IF a.dd0 = None THEN [i \in 1..circuit.N |-> 0] ELSE The(a.dd0)

\* ------------------------------------------------------------------ numpy
CeilDiv(a, b) == (a + b - 1) \div b

\* numpy.arange(start, stop, step) for step # 0
arange(start, stop, step) ==
    LET n == IF step > 0
             THEN (IF stop > start THEN CeilDiv(stop - start, step) ELSE 0)
             ELSE (IF start > stop THEN CeilDiv(start - stop, -step) ELSE 0)
    IN [i \in 1..n |-> start + (i - 1) * step]

\* a += b on one-dimensional arrays: b is broadcast to the shape of a, which
\* numpy allows when the lengths agree or b has exactly one entry.
CanIAdd(a, b) == Len(b) = Len(a) \/ Len(b) = 1
IAdd_assign(a, b) == IF Len(b) = Len(a) THEN b ELSE [i \in 1..Len(a) |-> b[1]]
IAdd(a, b) ==
    IF Len(b) = Len(a)
    THEN [i \in 1..Len(a) |-> a[i] + b[i]]
    ELSE [i \in 1..Len(a) |-> a[i] + b[1]]

\* ------------------------------------------------------------------ scipy
\* scipy.optimize.leastsq(func, x0) with full_output=0 returns (x, ier).
\* ier in 1..4: a solution was found; ier in 5..8: none was found, which
\* leastsq only warns about.  It raises a TypeError when MINPACK reports
\* improper input (ier = 0), and whatever func raises.
IerCodes == 1..8
Converged(ier) == ier \in 1..4
Raised(err, x0) == [err |-> err, x |-> x0, ier |-> 0]
LeastsqOutcomes(x0, S) ==
    {Raised("TypeError", x0)}
    \cup {[err |-> "", x |-> x, ier |-> i] : x \in [1..Len(x0) -> S], i \in IerCodes}

\* ---------------------------------------------------------------- settings
\* setting 0, 'New Circuit'
new_circuit_reset(self, c, nodes) ==
    Res(self, SetItem(EmptyDict, "circuit", Circuit(nodes)), "", None)
new_circuit_on_self(self, c, nodes) ==
    Res(SetItem(self, "circuit", Circuit(nodes)), SetItem(c, "circuit", Circuit(nodes)), "", None)
new_circuit(self, c, nodes) ==
    Res(self, SetItem(c, "circuit", Circuit(nodes)), "", None)

\* setting 100, 'Time': T is None, a list [tuple |-> FALSE, v |-> <<...>>] or
\* a (start, stop, step) tuple [tuple |-> TRUE, v |-> <<start, stop, step>>]
time(self, c, T) ==
    IF T = None
    THEN IF Has(c, "T") THEN Res(self, c, "", Some(c["T"])) ELSE Raise(self, c, "KeyError")
    ELSE LET t == The(T) IN
         IF t.tuple
         THEN IF t.v[3] = 0
              THEN Raise(self, c, "ValueError")
              ELSE Res(self, SetItem(c, "T", arange(t.v[1], t.v[2], t.v[3])), "", None)
         ELSE Res(self, SetItem(c, "T", t.v), "", None)

\* setting 101, 'Delta'
delta(self, c, d0) ==
    IF d0 = None
    THEN IF Has(c, "d0") THEN Res(self, c, "", Some(c["d0"])) ELSE Raise(self, c, "KeyError")
    ELSE Res(self, SetItem(c, "d0", The(d0)), "", None)

\* setting 102, 'Delta Dot'
delta_dot(self, c, dd0) ==
    IF dd0 = None
    THEN IF Has(c, "dd0") THEN Res(self, c, "", Some(c["dd0"])) ELSE Raise(self, c, "KeyError")
    ELSE Res(self, SetItem(c, "dd0", The(dd0)), "", None)

\* setting 103, 'Solve Initial Condition'; lsq is what leastsq does
solve_initial_condition(self, c, lsq) ==
    IF ~Has(c, "circuit") \/ ~Has(c, "d0") THEN Raise(self, c, "KeyError")
    ELSE IF lsq.err # "" THEN Raise(self, c, lsq.err)
    ELSE Res(self, SetItem(c, "d0", lsq.x), "", Some(lsq.x))

\* setting 104, 'Perturb Initial Condition'
perturb_initial_condition(self, c, d0_offset) ==
    IF ~Has(c, "d0") THEN Raise(self, c, "KeyError")
    ELSE IF ~CanIAdd(c["d0"], d0_offset) THEN Raise(self, c, "ValueError")
    ELSE LET s == IAdd(c["d0"], d0_offset)
         IN Res(self, SetItem(c, "d0", s), "", Some(s))

\* setting 200, 'Simulate'; outcome is how Circuit.simulate ends
simulate_args(c) == [T |-> c["T"], d0 |-> c["d0"], dd0 |-> Get(c, "dd0")]
simulate_strict(self, c, outcome) ==
    IF ~Has(c, "circuit") \/ ~Has(c, "T") \/ ~Has(c, "d0") \/ ~Has(c, "dd0")
    THEN Raise(self, c, "KeyError")
    ELSE [self |-> self, c |-> c, err |-> outcome,
          ret |-> IF outcome = "" THEN Some("elapsed") ELSE None,
          call |-> Some(simulate_args(c))]
simulate(self, c, outcome) ==
    IF ~Has(c, "circuit") \/ ~Has(c, "T") \/ ~Has(c, "d0")
    THEN Raise(self, c, "KeyError")
    ELSE [self |-> self, c |-> c, err |-> outcome,
          ret |-> IF outcome = "" THEN Some("elapsed") ELSE None,
          call |-> Some(simulate_args(c))]

\* c['circuit'][label] = element
store(self, c, label, el) ==
    IF ~Has(c, "circuit") THEN Raise(self, c, "KeyError")
    ELSE IF ~ValidNodes(c["circuit"], el) THEN Raise(self, c, "ConfigurationError")
    ELSE Res(self, SetItem(c, "circuit", CircuitSet(c["circuit"], label, el)), "", None)

\* setting 10, 'Add Capacitor'
add_capacitor(self, c, label, C, node1, node2) ==
    store(self, c, label, Capacitor(C, node1, node2))

\* setting 11, 'Add Junction'
add_junction(self, c, label, I0, node1, node2) ==
    store(self, c, label, Junction(I0, node1, node2))

\* setting 12, 'Add Inductor'
add_inductor(self, c, label, L, bias, node1, node2) ==
    store(self, c, label, Inductor(L, node1, node2, bias))

\* setting 13, 'Add Mutual'
mutual_of_crossed(M, L1, L2) == Mutual(M, L1.L, L2.L, L1.i, L1.j, L1.i, L2.j)
mutual_of(M, L1, L2) == Mutual(M, L1.L, L2.L, L1.i, L1.j, L2.i, L2.j)
add_mutual(self, c, label, M, L1, L2) ==
    IF ~Has(c, "circuit") THEN Raise(self, c, "KeyError")
    ELSE IF ~CircuitHas(c["circuit"], L1) \/ ~CircuitHas(c["circuit"], L2)
    THEN Raise(self, c, "LookupError")
    ELSE LET e1 == c["circuit"].elems[L1]
             e2 == c["circuit"].elems[L2]
         IN IF ~HasAttr(e1, "L") \/ ~HasAttr(e2, "L")
            THEN Raise(self, c, "AttributeError")
            ELSE store(self, c, label, mutual_of(M, e1, e2))

\* setting 14, 'Add Resistor'
add_resistor(self, c, label, R, node1, node2) ==
    store(self, c, label, Resistor(R, node1, node2))

\* setting 15, 'Add Current Bias'
add_current_bias(self, c, label, I, node) ==
    store(self, c, label, CurrentBias(I, node))

\* ------------------------------------------------------------------ state
Init ==
    /\ server = EmptyDict
    /\ ctx = [k \in Contexts |-> EmptyDict]
    /\ last = [op |-> "", c |-> "", arg |-> None, err |-> "", ret |-> None]
    /\ handed = None
    /\ stale = [k \in Contexts |-> FALSE]
    /\ snap = [k \in Contexts |-> EmptyDict]

DelItem(d, k) == [x \in (DOMAIN d) \ {k} |-> d[x]]

\* The request `op` with argument `arg`, issued in context k, yields r.
Serve(k, op, arg, r, st, sn) ==
    /\ server' = r.self
    /\ ctx' = [ctx EXCEPT ![k] = r.c]
    /\ last' = [op |-> op, c |-> k, arg |-> arg, err |-> r.err, ret |-> r.ret]
    /\ handed' = IF r.call = None THEN None
                 ELSE Some([T |-> The(r.call).T, d0 |-> The(r.call).d0, dd0 |-> The(r.call).dd0,
                            v0 |-> InitialVelocities(ctx[k]["circuit"], The(r.call))])
    /\ stale' = [stale EXCEPT ![k] = st]
    /\ snap' = [snap EXCEPT ![k] = sn]

Written(k, r, set) == IF r.err = "" /\ set THEN FALSE ELSE stale[k]

\* stored phases stay within the explored range
PhaseBound(k) ==
    Has(ctx'[k], "d0") => \A i \in DOMAIN ctx'[k]["d0"] : ctx'[k]["d0"][i] \in 0..MaxPhase

\* ---------------------------------------------------------------- requests
NewCircuit(k, nodes) ==
    LET r == new_circuit(server, ctx[k], nodes)
    IN /\ k \in Contexts
       /\ Serve(k, "new_circuit", Some(nodes), r, TRUE, EmptyDict)

Time(k, T) ==
    LET r == time(server, ctx[k], T)
    IN /\ k \in Contexts
       /\ Serve(k, "time", T, r, Written(k, r, T # None), snap[k])

Delta(k, d0) ==
    LET r == delta(server, ctx[k], d0)
    IN /\ k \in Contexts
       /\ Serve(k, "delta", d0, r, Written(k, r, d0 # None), snap[k])

DeltaDot(k, dd0) ==
    LET r == delta_dot(server, ctx[k], dd0)
    IN /\ k \in Contexts
       /\ Serve(k, "delta_dot", dd0, r, Written(k, r, dd0 # None), snap[k])

\* leastsq is reached only with a circuit and a guess, and Circuit.deriv
\* rejects a guess that does not match the node count; S holds the phases
\* leastsq can return.
SolveInitialCondition(k, S) ==
    \E lsq \in (IF ~Has(ctx[k], "circuit") \/ ~Has(ctx[k], "d0")
                THEN {Raised("KeyError", <<>>)}
                ELSE IF ~DerivAccepts(ctx[k]["circuit"], ctx[k]["d0"])
                THEN {Raised("DimensionError", ctx[k]["d0"])}
                ELSE LeastsqOutcomes(ctx[k]["d0"], S)) :
        LET r == solve_initial_condition(server, ctx[k], lsq)
        IN Serve(k, "solve_initial_condition", lsq, r, Written(k, r, TRUE), snap[k])

PerturbInitialCondition(k, d0_offset) ==
    LET r == perturb_initial_condition(server, ctx[k], d0_offset)
    IN /\ k \in Contexts
       /\ Serve(k, "perturb_initial_condition", d0_offset, r, Written(k, r, TRUE), snap[k])
       /\ PhaseBound(k)

Simulate(k) ==
    \E outcome \in (IF {"circuit", "T", "d0"} \subseteq DOMAIN ctx[k]
                    THEN SimulateOutcomes(ctx[k]["circuit"], simulate_args(ctx[k]))
                    ELSE {""}) :
        LET r == simulate(server, ctx[k], outcome)
        IN Serve(k, "simulate", None, r, stale[k], snap[k])

\* an element stored under a label is no longer the Mutual recorded there
Added(k, label, r) == IF r.err = "" THEN DelItem(snap[k], label) ELSE snap[k]

AddCapacitor(k, label, C, node1, node2) ==
    LET r == add_capacitor(server, ctx[k], label, C, node1, node2)
    IN /\ k \in Contexts
       /\ Serve(k, "add_capacitor", None, r, stale[k], Added(k, label, r))

AddJunction(k, label, I0, node1, node2) ==
    LET r == add_junction(server, ctx[k], label, I0, node1, node2)
    IN /\ k \in Contexts
       /\ Serve(k, "add_junction", None, r, stale[k], Added(k, label, r))

AddInductor(k, label, L, bias, node1, node2) ==
    LET r == add_inductor(server, ctx[k], label, L, bias, node1, node2)
    IN /\ k \in Contexts
       /\ Serve(k, "add_inductor", None, r, stale[k], Added(k, label, r))

AddMutual(k, label, M, L1, L2) ==
    LET r == add_mutual(server, ctx[k], label, M, L1, L2)
    IN /\ k \in Contexts
       /\ Serve(k, "add_mutual", [label |-> label, L1 |-> L1, L2 |-> L2], r, stale[k],
                IF r.err = ""
                THEN SetItem(snap[k], label, [l1 |-> L1, L1 |-> ctx[k]["circuit"].elems[L1],
                                              l2 |-> L2, L2 |-> ctx[k]["circuit"].elems[L2]])
                ELSE snap[k])

AddResistor(k, label, R, node1, node2) ==
    LET r == add_resistor(server, ctx[k], label, R, node1, node2)
    IN /\ k \in Contexts
       /\ Serve(k, "add_resistor", None, r, stale[k], Added(k, label, r))

AddCurrentBias(k, label, I, node) ==
    LET r == add_current_bias(server, ctx[k], label, I, node)
    IN /\ k \in Contexts
       /\ Serve(k, "add_current_bias", None, r, stale[k], Added(k, label, r))

\* ----------------------------------------------------------- specifications
Vals == 0..MaxVal
NodeCounts == 1..MaxNodes

\* Initial-condition requests of one session: a guess of one or more phases,
\* and offsets of any length
NextD0 ==
    \E k \in {"A"} :
        \/ \E nodes \in NodeCounts : NewCircuit(k, nodes)
        \/ \E d0 \in Vecs(Vals, MaxLen) \ {<<>>} : Delta(k, Some(d0))
        \/ Delta(k, None)
        \/ SolveInitialCondition(k, Vals)
        \/ \E off \in Vecs(Vals, MaxLen) : PerturbInitialCondition(k, off)
SpecD0 == Init /\ [][NextD0]_vars

\* Circuit construction in one session.  Parameter values are opaque to the
\* server; two of them tell a copy from a stale value.
Labels == {"a", "m"}
Inductances == {1, 2}
Node1Args == {0, 1}
Node2Args == {None, Some(0)}
NextCircuit ==
    \E k \in {"A"} :
        \/ \E nodes \in NodeCounts : NewCircuit(k, nodes)
        \/ \E l \in Labels : AddCapacitor(k, l, 1, 0, None)
        \/ \E l \in Labels : AddJunction(k, l, 1, 0, None)
        \/ \E l \in Labels, L \in Inductances, n1 \in Node1Args, n2 \in Node2Args :
               AddInductor(k, l, L, 0, n1, n2)
        \/ \E l \in Labels, L1 \in Labels, L2 \in Labels : AddMutual(k, l, 1, L1, L2)
        \/ \E l \in Labels : AddResistor(k, l, 1, 0, None)
        \/ \E l \in Labels, n1 \in Node1Args : AddCurrentBias(k, l, 1, n1)
SpecCircuit == Init /\ [][NextCircuit]_vars

\* Time grids and runs of one session.  The integrator reads only the
\* lengths of d0 and dd0; two vectors of one length tell the latest from an
\* earlier one.
TimeLists == Vecs(0..MaxTime, MaxLen)
TimeTuples == {<<start, stop, step>> : start \in 0..MaxTime, stop \in 0..(MaxTime + 1),
                                       step \in {-1, 0, 1, 2}}
SimVecs == {<<0>>, <<1>>, <<0, 0>>}
NextSim ==
    \E k \in {"A"} :
        \/ \E nodes \in NodeCounts : NewCircuit(k, nodes)
        \/ \E T \in TimeLists : Time(k, Some([tuple |-> FALSE, v |-> T]))
        \/ \E T \in TimeTuples : Time(k, Some([tuple |-> TRUE, v |-> T]))
        \/ Time(k, None)
        \/ \E d0 \in SimVecs : Delta(k, Some(d0))
        \/ \E dd0 \in SimVecs : DeltaDot(k, Some(dd0))
        \/ DeltaDot(k, None)
        \/ Simulate(k)
SpecSim == Init /\ [][NextSim]_vars

\* Every setting, issued in one session
Next ==
    \E k \in {"A"} :
        \/ \E nodes \in NodeCounts : NewCircuit(k, nodes)
        \/ AddCapacitor(k, "a", 1, 0, None)
        \/ AddJunction(k, "a", 1, 0, None)
        \/ AddInductor(k, "a", 1, 0, 0, None)
        \/ AddMutual(k, "m", 1, "a", "a")
        \/ AddResistor(k, "a", 1, 0, None)
        \/ AddCurrentBias(k, "a", 1, 0)
        \/ Time(k, Some([tuple |-> FALSE, v |-> <<0, 1>>]))
        \/ Time(k, Some([tuple |-> TRUE, v |-> <<0, 2, 1>>]))
        \/ Time(k, None)
        \/ \E d0 \in {<<0>>, <<0, 0>>} : Delta(k, Some(d0))
        \/ Delta(k, None)
        \/ \E dd0 \in {<<0>>, <<1>>} : DeltaDot(k, Some(dd0))
        \/ DeltaDot(k, None)
        \/ SolveInitialCondition(k, {0})
        \/ PerturbInitialCondition(k, <<1>>)
        \/ Simulate(k)
Spec == Init /\ [][Next]_vars

\* Two client contexts, each driving its own session
NextContexts ==
    \E k \in Contexts :
        \/ NewCircuit(k, 1)
        \/ AddInductor(k, "a", 1, 0, 0, None)
        \/ Time(k, Some([tuple |-> FALSE, v |-> <<0, 1>>]))
        \/ Delta(k, Some(<<0>>))
        \/ DeltaDot(k, Some(<<0>>))
        \/ SolveInitialCondition(k, {0})
        \/ PerturbInitialCondition(k, <<1>>)
        \/ Simulate(k)
SpecContexts == Init /\ [][NextContexts]_vars

\* ------------------------------------------------------------------ claims
\* the context the latest request was issued in, before and after it
Before == ctx[last'.c]
After == ctx'[last'.c]
AllZero(v) == \A i \in DOMAIN v : v[i] = 0
StrictlyIncreasing(T) == \A i \in 1..(Len(T) - 1) : T[i] < T[i + 1]

\* C1: when leastsq returns without having converged, Solve Initial Condition
\* ends in an error, returns nothing and leaves the stored d0 as it was.
C1_NonConvergenceReported ==
    [][(/\ last'.op = "solve_initial_condition"
        /\ last'.arg.err = ""
        /\ ~Converged(last'.arg.ier))
       => (/\ last'.err # ""
           /\ last'.ret = None
           /\ After["d0"] = Before["d0"])]_vars

\* C2: Perturb Initial Condition with an offset whose length differs from the
\* length of the stored d0 fails with a ValueError and leaves d0 unchanged.
C2_MismatchedOffsetRejected ==
    [][(/\ last'.op = "perturb_initial_condition"
        /\ Has(Before, "d0")
        /\ Len(last'.arg) # Len(Before["d0"]))
       => (/\ last'.err = "ValueError"
           /\ After["d0"] = Before["d0"])]_vars

\* C3: Add Mutual whose L1 or L2 is absent from the circuit, or names an
\* element that is not an Inductor, fails with a ConfigurationError and leaves
\* the circuit's label-to-element mapping unchanged.
BadInductorRef(circuit, label) ==
    \/ ~CircuitHas(circuit, label)
    \/ circuit.elems[label].kind # "Inductor"
C3_MutualRefConfigurationError ==
    [][(/\ last'.op = "add_mutual"
        /\ Has(Before, "circuit")
        /\ \/ BadInductorRef(Before["circuit"], last'.arg.L1)
           \/ BadInductorRef(Before["circuit"], last'.arg.L2))
       => (/\ last'.err = "ConfigurationError"
           /\ After["circuit"] = Before["circuit"])]_vars

\* C4: every time grid Simulate hands to the integrator is strictly
\* increasing and has at least 2 points.
C4_HandedGridIncreasing ==
    handed # None => (Len(The(handed).T) >= 2 /\ StrictlyIncreasing(The(handed).T))

\* C5: Perturb Initial Condition with an offset as long as the stored d0
\* succeeds, stores the elementwise sum of d0 and the offset and returns it;
\* with an all-zero offset the stored d0 is unchanged.
C5_PerturbAddsElementwise ==
    [][(/\ last'.op = "perturb_initial_condition"
        /\ Has(Before, "d0")
        /\ Len(last'.arg) = Len(Before["d0"]))
       => (/\ last'.err = ""
           /\ After["d0"] = [i \in 1..Len(Before["d0"]) |-> Before["d0"][i] + last'.arg[i]]
           /\ last'.ret = Some(After["d0"])
           /\ (AllZero(last'.arg) => After["d0"] = Before["d0"]))]_vars
C5_ZeroOffsetWitness ==
    /\ last.op = "perturb_initial_condition"
    /\ last.err = ""
    /\ Len(last.arg) = MaxLen
    /\ AllZero(last.arg)
    /\ ~AllZero(ctx[last.c]["d0"])
    /\ last.ret = Some(ctx[last.c]["d0"])

\* C6: a Mutual stored by Add Mutual holds the inductances and the endpoint
\* nodes the two inductors had when Add Mutual ran, whatever has been stored
\* under the inductors' labels since.
C6_MutualKeepsCopies ==
    \A k \in Contexts : \A l \in DOMAIN snap[k] :
        /\ Has(ctx[k], "circuit")
        /\ CircuitHas(ctx[k]["circuit"], l)
        /\ LET m == ctx[k]["circuit"].elems[l]
               s == snap[k][l]
           IN /\ m.kind = "Mutual"
              /\ m.L1 = s.L1.L /\ m.i = s.L1.i /\ m.j = s.L1.j
              /\ m.L2 = s.L2.L /\ m.k = s.L2.i /\ m.l = s.L2.j
C6_InductorReplacedWitness ==
    \E l \in DOMAIN snap["A"] :
        LET s == snap["A"][l]
            now == ctx["A"]["circuit"].elems
        IN /\ s.l1 # l /\ s.l2 = l
           /\ now[s.l1].kind = "Inductor"
           /\ now[s.l1].L # s.L1.L /\ now[s.l1].j # s.L1.j
           /\ s.L1.L # s.L2.L /\ s.L1.i # s.L2.i /\ s.L1.j # s.L2.j

\* C7: with circuit, T and d0 set, Simulate never fails for a missing dd0: it
\* calls the integrator, with the stored dd0 when Delta Dot has set one and
\* otherwise with none, which the integrator starts from zero velocities.
C7_SimulateDefaultsVelocities ==
    (last.op = "simulate" /\ {"circuit", "T", "d0"} \subseteq DOMAIN ctx[last.c])
    => /\ last.err # "KeyError"
       /\ handed # None
       /\ IF Has(ctx[last.c], "dd0")
          THEN /\ The(handed).dd0 = Some(ctx[last.c]["dd0"])
               /\ The(handed).v0 = ctx[last.c]["dd0"]
          ELSE /\ The(handed).dd0 = None
               /\ The(handed).v0 = [i \in 1..ctx[last.c]["circuit"].N |-> 0]
C7_RunWithoutDeltaDotWitness ==
    /\ last.op = "simulate"
    /\ last.err = ""
    /\ ~Has(ctx[last.c], "dd0")
    /\ handed # None
    /\ The(handed).v0 = <<0, 0>>

\* C8: a request issued in one client context leaves the session of every
\* other context unchanged, and the server object keeps no state of its own.
C8_SessionsIsolated ==
    [][/\ \A j \in Contexts \ {last'.c} : ctx'[j] = ctx[j]
       /\ server' = EmptyDict]_vars
C8_TwoSessionsWitness ==
    /\ last.c = "A"
    /\ last.op = "perturb_initial_condition"
    /\ last.err = ""
    /\ {"circuit", "T", "d0", "dd0"} \subseteq DOMAIN ctx["B"]
    /\ ctx["A"]["d0"] # ctx["B"]["d0"]
    /\ Has(ctx["A"], "circuit")
    /\ ctx["A"]["circuit"] # ctx["B"]["circuit"]

\* C10: New Circuit replaces the session's circuit and nothing else of the
\* session, and Simulate hands the integrator the stored T, d0 and dd0, so a
\* run after New Circuit uses the values set before it.
C10_NewCircuitKeepsSession ==
    [][/\ last'.op = "new_circuit"
          => /\ DelItem(After, "circuit") = DelItem(Before, "circuit")
             /\ After["circuit"] = Circuit(The(last'.arg))
       /\ (last'.op = "simulate" /\ handed' # None)
          => /\ The(handed').T = Before["T"]
             /\ The(handed').d0 = Before["d0"]
             /\ The(handed').dd0 = Get(Before, "dd0")]_vars
C10_RunAfterNewCircuitWitness ==
    /\ last.op = "simulate"
    /\ last.err = ""
    /\ handed # None
    /\ stale[last.c]
    /\ Has(ctx[last.c], "dd0")
    /\ ctx[last.c]["circuit"].N = Len(ctx[last.c]["d0"])

====
